---- MODULE Spec2Model ----
(***************************************************************************)
(* Model of src/assistant.py: the CLI entry point (main), the Run Driver   *)
(* (run_assistant), the Run Poller (check_run), the Expert Caller          *)
(* (handle_contact_expert) and the Script Runner                           *)
(* (execute_python_code_local).                                            *)
(*                                                                         *)
(* The remote service is the environment: every remote call either raises  *)
(* or returns a value drawn from a small set.  Optional Python values      *)
(* (None or a value) are sequences of length at most one.                  *)
(***************************************************************************)
EXTENDS Naturals, Sequences, FiniteSets, TLC

VARIABLES
    pc,           \* position of the main flow
    user_input,   \* main: the line read from standard input (None before)
    exit_code,    \* process exit code (None while running)
    exc,          \* the exception that reached main's except clause (None if none)
    run,          \* the local run snapshot (NoRun before create_and_run)
    polled,       \* history: the statuses the current check_run call retrieved
    last_id,      \* run_assistant: last seen message id
    args,         \* run_assistant: parsed arguments of the tool call
    response,     \* run_assistant: what handle_contact_expert returned
    thread,       \* remote: ids of the conversation's messages, in listing order
    calls,        \* history: the remote calls issued, in order
    printed,      \* history: what was written to standard output
    r_pc,         \* execute_python_code_local: position
    r_script,     \* execute_python_code_local: the argument s
    r_name,       \* execute_python_code_local: temp_file_name
    r_files,      \* temporary files existing on disk
    r_created,    \* history: temporary files created so far
    r_proc,       \* execute_python_code_local: the finished subprocess
    r_result      \* execute_python_code_local: outcome of the last call

mainVars == <<pc, user_input, exit_code, exc, run, polled, last_id, args, response,
              thread, calls, printed>>
runnerVars == <<r_pc, r_script, r_name, r_files, r_created, r_proc, r_result>>
vars == <<mainVars, runnerVars>>

-----------------------------------------------------------------------------
(* Bounds *)

MaxPolls == 2
MaxMessages == 2
MaxToolCalls == 2
MaxRunnerCalls == 3

-----------------------------------------------------------------------------
(* Optional values and small helpers *)

None == <<>>
Some(v) == <<v>>

Last(s) == s[Len(s)]

RECURSIVE Join(_, _)
\* str.join: the items of a non-empty tuple separated by sep
Join(sep, items) ==
    IF Len(items) = 1 THEN items[1]
    ELSE items[1] \o sep \o Join(sep, Tail(items))

RECURSIVE SeqsUpTo(_, _)
SeqsUpTo(S, n) ==
    IF n = 0 THEN {<<>>}
    ELSE LET shorter == SeqsUpTo(S, n - 1)
         IN  shorter \cup {Append(s, x) : s \in {t \in shorter : Len(t) = n - 1}, x \in S}

-----------------------------------------------------------------------------
(* Program constants *)

continuation_prompt ==
    "Based on the information given, what are the most logical next steps or conclusions?\n"
    \o "Analyze all previous interaction and ask for clarification from a different expert if one contradicts itself.\n"
    \o "Please make sure that the solution is accurate, directly answers the original question, and follows all given constraints.\n"
    \o "Additionally, review the final solution or have another expert(s) verify it.\n"
    \o "If you were asked for any clarification, please provide it. Remember that experts cannot recall any previous interaction so provide all necessary details."

-----------------------------------------------------------------------------
(* The values the environment supplies *)

\* lines typed by the user
Inputs == {"quit", "Quit", "Plan a trip"}

\* (thread id, run id) pairs the remote service may hand out
Handles == {[thread_id |-> "thread_1", id |-> "run_1"],
            [thread_id |-> "thread_2", id |-> "run_2"]}

\* run statuses the remote service may report ("cancelling" stands for any other value)
ReturningStatuses == {"completed", "expired", "failed", "requires_action"}
WaitingStatuses == {"queued", "in_progress", "cancelling"}
Statuses == ReturningStatuses \cup WaitingStatuses

\* JSON texts a tool call may carry as its arguments
ArgsFull == "{\"name\": \"Expert Mathematician\", \"persona\": \"You are precise.\", \"instructions\": \"Compute 2+2.\"}"
ArgsNoPersona == "{\"name\": \"Expert Poet\", \"instructions\": \"Write a haiku.\"}"
ArgsNoInstructions == "{\"name\": \"Expert Poet\"}"
ArgsTruncated == "{\"name\": \"Expert Po"

ArgsCode == "{\"code\": \"print(1)\"}"

\* the ids of n pending tool calls, in the order the run lists them
ToolCallId(n, i) == "call_" \o ToString(n + 1 - i)

\* n pending tool calls led by `first`; the calls after it are further
\* contact_expert requests with well-formed arguments
Pending(first, n) ==
    [i \in 1..n |->
        IF i = 1 THEN [id |-> ToolCallId(n, 1), name |-> first.name,
                       arguments |-> first.arguments]
        ELSE [id |-> ToolCallId(n, i), name |-> "contact_expert", arguments |-> ArgsFull]]

\* the pending tool calls of a requires_action run: a single call, or several
ToolCallLists ==
    {Pending([name |-> "contact_expert", arguments |-> a], 1) :
        a \in {ArgsFull, ArgsNoInstructions, ArgsTruncated}}
    \cup {Pending(first, n) :
            first \in {[name |-> "contact_expert", arguments |-> ArgsNoPersona],
                       [name |-> "execute_python_code", arguments |-> ArgsCode]},
            n \in 1..MaxToolCalls}

\* completion texts
Replies == {"R", ""}

\* errors of the client library, all subclasses of OpenAIError
OpenAIErrors == {"APIConnectionError", "AuthenticationError", "RateLimitError",
                 "APIResponseValidationError"}

\* message content kinds: only "text" content has a ['text']['value']
ContentKinds == {"text", "image_file"}

NoRun == [thread_id |-> "", id |-> "", status |-> "", tool_calls |-> <<>>]

-----------------------------------------------------------------------------
(* Pure pieces of the code *)

\* mutant: the sentinel compared against is another word
IsQuit_Exit(line) == line = "exit"

\* main: user_input == 'quit'
IsQuit(line) == line = "quit"

\* mutant: requires_action is treated as a status to wait on
PollerReturns_NoAction(status) ==
    \/ status = "completed"
    \/ status = "expired" \/ status = "failed"

\* check_run: the statuses on which the loop returns the run
PollerReturns(status) ==
    \/ status = "completed"
    \/ status = "expired" \/ status = "failed"
    \/ status = "requires_action"

\* check_run: the line printed for a status
StatusLine(status) ==
    IF status = "completed" THEN <<"Run is completed.", status>>
    ELSE IF status = "expired" \/ status = "failed" THEN <<"Run is", status>>
    ELSE IF status = "requires_action" THEN <<"Running function...", status>>
    ELSE <<"Run is not yet completed. Waiting...", status>>

\* json.loads on the argument texts: the parsed object, or a decode error
json_loads(text) ==
    IF text = ArgsFull
        THEN [ok |-> TRUE,
              value |-> [name |-> "Expert Mathematician", persona |-> "You are precise.",
                         instructions |-> "Compute 2+2."]]
    ELSE IF text = ArgsNoPersona
        THEN [ok |-> TRUE,
              value |-> [name |-> "Expert Poet", instructions |-> "Write a haiku."]]
    ELSE IF text = ArgsNoInstructions
        THEN [ok |-> TRUE, value |-> [name |-> "Expert Poet"]]
    ELSE [ok |-> FALSE, value |-> "JSONDecodeError"]

\* run_assistant: which function name is dispatched to the Expert Caller
IsContactExpert(tool_call) == tool_call.name = "contact_expert"

\* dict.get(key): None when the key is absent
DictGet(d, key) == IF key \in DOMAIN d THEN Some(d[key]) ELSE None

\* mutant: only None is falsy
Truthy_NotNone(opt) == opt # None

\* truth value of an optional string: None and "" are falsy
Truthy(opt) == opt # None /\ opt[1] # ""

\* mutant: only connection errors are caught
ExpertCatches_ConnectionOnly(e) == e = "APIConnectionError"

\* handle_contact_expert: the exceptions its except clause catches
ExpertCatches(e) == e \in OpenAIErrors

\* mutant: the reply and the prompt are joined by a single newline
ToolOutput_OneNewline(tool_call, reply) ==
    [tool_call_id |-> tool_call.id,
     output |-> Join("\n", <<reply, continuation_prompt>>)]

\* run_assistant: the tool output built from a reply
ToolOutput(tool_call, reply) ==
    [tool_call_id |-> tool_call.id,
     output |-> Join("\n\n", <<reply, continuation_prompt>>)]

\* mutant: the driver handles the last pending tool call
FirstToolCall_Last(r) == r.tool_calls[Len(r.tool_calls)]

\* mutant: the run id is passed as the thread id and the thread id as the run id
RunKey_Swapped(r) == [thread_id |-> r.id, run_id |-> r.thread_id]

\* check_run, run_assistant: thread_id=run.thread_id, run_id=run.id
RunKey(r) == [thread_id |-> r.thread_id, run_id |-> r.id]

\* run_assistant: the tool call the driver handles
FirstToolCall(r) == r.tool_calls[1]

\* mutant: with no response an error marker is submitted for the pending call
ToolOutputs_Marker(tool_call, resp) ==
    IF Truthy(resp) THEN <<ToolOutput(tool_call, resp[1])>>
    ELSE << [tool_call_id |-> tool_call.id, output |-> "error"] >>

\* run_assistant: the tool_outputs list after the expert's response
ToolOutputs(tool_call, resp) ==
    IF Truthy(resp) THEN <<ToolOutput(tool_call, resp[1])>> ELSE <<>>

\* mutant: every listing asks for all the messages
QueryAfter_All(last) == None

\* run_assistant: query_params of the message listing
QueryAfter(last) == IF last # None THEN last ELSE None

\* mutant: the loop never breaks
LoopBreaks_Never(status) == FALSE

\* mutant: the loop breaks on every status whose messages were printed
LoopBreaks_AnyFinal(status) == status \in {"completed", "failed", "expired"}

\* run_assistant: the status on which the loop breaks after printing messages
LoopBreaks(status) == status = "completed"

\* mutant: the except clause exits with code 0
ExceptExitCode_Zero == Some(0)

\* main: the exit code after an exception is caught
ExceptExitCode == Some(1)

\* main: the exit code of the quit sentinel
QuitExitCode == Some(0)

\* main returning normally: the interpreter exits with code 0
NormalExitCode == Some(0)

-----------------------------------------------------------------------------
(* Histories *)

\* one remote call: the operation, the handle it was issued for, its argument
\* and <<"ok", value>> or <<"raise", exception>>
Call(op, thread_id, run_id, arg, ret) ==
    [op |-> op, thread_id |-> thread_id, run_id |-> run_id, arg |-> arg, ret |-> ret]

Ok(v) == <<"ok", v>>
Raised(e) == <<"raise", e>>

CallsOf(op) == {i \in DOMAIN calls : calls[i].op = op}

Polls == Cardinality(CallsOf("retrieve"))

MsgId(n) == "msg_" \o ToString(n)

\* main's except clause: print the message, exit with code 1
MainExcept(e, out) ==
    /\ exc' = Some(e)
    /\ printed' = printed \o out \o << <<"error", e>> >>
    /\ exit_code' = ExceptExitCode
    /\ pc' = "done"

-----------------------------------------------------------------------------
(* The main flow *)

Init ==
    /\ pc = "start"
    /\ user_input = None
    /\ exit_code = None
    /\ exc = None
    /\ run = NoRun
    /\ polled = <<>>
    /\ last_id = None
    /\ args = None
    /\ response = None
    /\ thread = <<>>
    /\ calls = <<>>
    /\ printed = <<>>
    /\ r_pc = "idle"
    /\ r_script = None
    /\ r_name = None
    /\ r_files = {}
    /\ r_created = {}
    /\ r_proc = None
    /\ r_result = None

\* main, lines 142-146: read one line; the quit sentinel exits with code 0
HandleUserInput ==
    /\ pc = "start"
    /\ \E line \in Inputs :
        /\ user_input' = Some(line)
        /\ printed' = Append(printed, <<"User Command:", "">>)
        /\ IF IsQuit(line)
              THEN pc' = "done" /\ exit_code' = QuitExitCode
              ELSE pc' = "create" /\ exit_code' = exit_code
    /\ UNCHANGED <<exc, run, polled, last_id, args, response, thread, calls>>
    /\ UNCHANGED runnerVars

\* main, lines 148-156: create the conversation and the run
CreateAndRun ==
    /\ pc = "create"
    /\ \/ \E h \in Handles :
            /\ calls' = Append(calls, Call("create_and_run", "", "", user_input, Ok(h)))
            /\ run' = [thread_id |-> h.thread_id, id |-> h.id,
                       status |-> "queued", tool_calls |-> <<>>]
            /\ thread' = << [id |-> MsgId(1), kind |-> "text"] >>
            /\ pc' = "check_run"
            /\ UNCHANGED <<exit_code, exc, printed>>
       \/ \E e \in {"APIConnectionError"} :
            /\ calls' = Append(calls, Call("create_and_run", "", "", user_input, Raised(e)))
            /\ MainExcept(e, <<>>)
            /\ UNCHANGED <<run, thread>>
    /\ polled' = <<>>
    /\ UNCHANGED <<user_input, last_id, args, response>>
    /\ UNCHANGED runnerVars

\* check_run, lines 70-87: one iteration of the polling loop
CheckRun ==
    /\ pc = "check_run"
    /\ Polls < MaxPolls
    /\ \/ \E s \in Statuses :
          \E tcs \in (IF s = "requires_action" THEN ToolCallLists ELSE {<<>>}) :
            /\ calls' = Append(calls, Call("retrieve", RunKey(run).thread_id,
                                            RunKey(run).run_id, None,
                                            Ok([status |-> s, tool_calls |-> tcs])))
            /\ run' = [thread_id |-> run.thread_id, id |-> run.id,
                       status |-> s, tool_calls |-> tcs]
            /\ polled' = Append(polled, s)
            /\ printed' = Append(printed, StatusLine(s))
            /\ pc' = IF PollerReturns(s) THEN "driver" ELSE "check_run"
            /\ UNCHANGED <<exit_code, exc>>
       \/ \E e \in {"APIConnectionError"} :
            /\ calls' = Append(calls, Call("retrieve", RunKey(run).thread_id,
                                            RunKey(run).run_id, None, Raised(e)))
            /\ MainExcept(e, <<>>)
            /\ UNCHANGED <<run, polled>>
    /\ UNCHANGED <<user_input, last_id, args, response, thread>>
    /\ UNCHANGED runnerVars

\* run_assistant, lines 97-107: take the first tool call and parse its arguments
RequiresAction ==
    /\ pc = "driver"
    /\ run.status = "requires_action"
    /\ LET tool_call == FirstToolCall(run)
           parsed == json_loads(tool_call.arguments)
       IN  IF ~IsContactExpert(tool_call)
              THEN \* tool_outputs stays empty: nothing is submitted
                   /\ pc' = "check_run"
                   /\ UNCHANGED <<args, exit_code, exc, printed>>
           ELSE IF ~parsed.ok
              THEN MainExcept("JSONDecodeError", <<>>) /\ UNCHANGED args
           ELSE IF "name" \notin DOMAIN parsed.value
                   \/ "instructions" \notin DOMAIN parsed.value
              THEN MainExcept("KeyError", <<>>) /\ UNCHANGED args
           ELSE /\ args' = Some([name |-> parsed.value["name"],
                                 persona |-> DictGet(parsed.value, "persona"),
                                 instructions |-> parsed.value["instructions"]])
                /\ printed' = Append(printed, <<"expert request", parsed.value["name"]>>)
                /\ pc' = "contact_expert"
                /\ UNCHANGED <<exit_code, exc>>
    /\ polled' = IF pc' = "check_run" THEN <<>> ELSE polled
    /\ UNCHANGED <<user_input, run, last_id, response, thread, calls>>
    /\ UNCHANGED runnerVars

\* handle_contact_expert, lines 28-44: one completion request.  The request
\* returns a completion (whose text may be empty or null), or fails with an
\* error of the client library, which line 43 catches; IndexError is line 41
\* indexing a response that holds no choice, which line 43 does not catch.
HandleContactExpert ==
    /\ pc = "contact_expert"
    /\ \/ \E content \in {Some(r) : r \in Replies} \cup {None} :
            /\ calls' = Append(calls, Call("completion", "", "", args, Ok(content)))
            /\ response' = content
            /\ pc' = "respond"
            /\ UNCHANGED <<exit_code, exc, printed>>
       \/ \E e \in OpenAIErrors \cup {"IndexError"} :
            /\ calls' = Append(calls, Call("completion", "", "", args, Raised(e)))
            /\ IF ExpertCatches(e)
                  THEN /\ printed' = Append(printed, <<"error", e>>)
                       /\ response' = None
                       /\ pc' = "respond"
                       /\ UNCHANGED <<exit_code, exc>>
                  ELSE MainExcept(e, <<>>) /\ UNCHANGED response
    /\ UNCHANGED <<user_input, run, polled, last_id, args, thread>>
    /\ UNCHANGED runnerVars

\* mutant: the tool outputs are submitted even when the list is empty
SubmitNeeded_Always(tool_outputs) == TRUE

\* run_assistant, line 120: whether the tool outputs are submitted
SubmitNeeded(tool_outputs) == tool_outputs # <<>>

\* run_assistant, lines 111-125: build the tool output and submit it
Respond ==
    /\ pc = "respond"
    /\ LET tool_call == FirstToolCall(run)
           tool_outputs == ToolOutputs(tool_call, response)
           out == IF Truthy(response) THEN << <<"expert reply", response[1]>> >> ELSE <<>>
       IN  IF SubmitNeeded(tool_outputs)
              THEN \/ /\ calls' = Append(calls, Call("submit_tool_outputs",
                                                     RunKey(run).thread_id, RunKey(run).run_id,
                                                     tool_outputs, Ok("queued")))
                      /\ run' = [thread_id |-> run.thread_id, id |-> run.id,
                                 status |-> "queued", tool_calls |-> <<>>]
                      /\ printed' = printed \o out
                      /\ pc' = "check_run"
                      /\ UNCHANGED <<exit_code, exc>>
                   \/ \E e \in {"BadRequestError"} :
                      /\ calls' = Append(calls, Call("submit_tool_outputs",
                                                     RunKey(run).thread_id, RunKey(run).run_id,
                                                     tool_outputs, Raised(e)))
                      /\ MainExcept(e, out)
                      /\ UNCHANGED run
              ELSE /\ printed' = printed \o out
                   /\ pc' = "check_run"
                   /\ UNCHANGED <<calls, run, exit_code, exc>>
    /\ polled' = IF pc' = "check_run" THEN <<>> ELSE polled
    /\ UNCHANGED <<user_input, last_id, args, response, thread>>
    /\ UNCHANGED runnerVars

\* the messages listed after a cursor (all of them without a cursor)
ListAfter(msgs, after) ==
    IF after = None THEN msgs
    ELSE LET at == CHOOSE i \in DOMAIN msgs : msgs[i].id = after[1]
         IN  SubSeq(msgs, at + 1, Len(msgs))

\* run_assistant, lines 132-134: the messages printed before one without text content
RECURSIVE PrintedMessages(_)
PrintedMessages(data) ==
    IF data = <<>> \/ Head(data).kind # "text" THEN <<>>
    ELSE << <<"Assistant:", Head(data).id>> >> \o PrintedMessages(Tail(data))

\* run_assistant, lines 127-137: list the messages, print them, break on completed.
\* The remote conversation may have grown since the last listing, at the front
\* of the listing order (newest first) or at its end (oldest first); data[-1] of
\* an empty listing raises IndexError, content without text raises KeyError.
ListMessages ==
    /\ pc = "driver"
    /\ run.status # "requires_action"
    /\ LET after == QueryAfter(last_id)
       IN  \/ \E kinds \in SeqsUpTo(ContentKinds, MaxMessages - Len(thread)) :
              \E newest_first \in BOOLEAN :
                LET new == [i \in 1..Len(kinds) |->
                              [id |-> MsgId(Len(thread) + i), kind |-> kinds[i]]]
                    grown == IF newest_first THEN new \o thread ELSE thread \o new
                    data == ListAfter(grown, after)
                    out == PrintedMessages(data)
                IN  /\ thread' = grown
                    /\ calls' = Append(calls, Call("list_messages", run.thread_id, "",
                                                    after, Ok(data)))
                    /\ IF data = <<>>
                          THEN MainExcept("IndexError", <<>>) /\ UNCHANGED last_id
                          ELSE /\ last_id' = Some(Last(data).id)
                               /\ IF Len(out) < Len(data)
                                     THEN MainExcept("KeyError", out)
                                  ELSE IF LoopBreaks(run.status)
                                     THEN /\ printed' = printed \o out
                                          /\ pc' = "done"
                                          /\ exit_code' = NormalExitCode
                                          /\ UNCHANGED exc
                                  ELSE /\ printed' = printed \o out
                                       /\ pc' = "check_run"
                                       /\ UNCHANGED <<exit_code, exc>>
           \/ \E e \in {"APIConnectionError"} :
                /\ calls' = Append(calls, Call("list_messages", run.thread_id, "",
                                                after, Raised(e)))
                /\ MainExcept(e, <<>>)
                /\ UNCHANGED <<thread, last_id>>
    /\ polled' = IF pc' = "check_run" THEN <<>> ELSE polled
    /\ UNCHANGED <<user_input, run, args, response>>
    /\ UNCHANGED runnerVars

Next ==
    \/ HandleUserInput
    \/ CreateAndRun
    \/ CheckRun
    \/ RequiresAction
    \/ HandleContactExpert
    \/ Respond
    \/ ListMessages

Spec == Init /\ [][Next]_vars

-----------------------------------------------------------------------------
(* The Script Runner, execute_python_code_local.  The main flow never calls *)
(* it; SpecRunner is a caller that invokes it repeatedly, in sequence.      *)

\* script sources; the last one holds a lone surrogate, which utf-8 cannot encode
Scripts == {"print('ok')", "raise ValueError('x')", "print('\\ud800')"}

\* str.encode('utf-8') succeeds
Encodable(s) == s # "print('\\ud800')"

\* what a finished subprocess may report
ReturnCodes == {0, 1, 2}
Stdouts == {"", "ok\n"}
Stderrs == {"", "ValueError: x\n"}
CompletedProcesses == [returncode : ReturnCodes, stdout : Stdouts, stderr : Stderrs]

\* NamedTemporaryFile: a name no earlier call used
TempName(created) == "tmp" \o ToString(Cardinality(created) + 1) \o ".py"

\* mutant: the handler returns the standard output of the failed process
RunnerReturn_Stdout(proc) == proc.stdout

\* lines 54-62: check=True raises CalledProcessError on a non-zero exit,
\* and the handler returns its stderr
RunnerReturn(proc) ==
    IF proc.returncode = 0 THEN proc.stdout ELSE proc.stderr

\* line 49: create the temporary file (delete=False)
RunnerCreate ==
    /\ r_pc = "idle"
    /\ Cardinality(r_created) < MaxRunnerCalls
    /\ \E s \in Scripts :
        /\ r_script' = Some(s)
        /\ r_name' = Some(TempName(r_created))
        /\ r_files' = r_files \cup {TempName(r_created)}
        /\ r_created' = r_created \cup {TempName(r_created)}
        /\ r_proc' = None
        /\ r_result' = None
        /\ r_pc' = "write"
    /\ UNCHANGED mainVars

\* lines 51-52: encode, write and flush the source; these run before the
\* try statement, so an exception here leaves the with block without the
\* finally clause
RunnerWrite ==
    /\ r_pc = "write"
    /\ \/ /\ Encodable(r_script[1])
          /\ r_pc' = "run"
          /\ UNCHANGED r_result
       \/ /\ ~Encodable(r_script[1])
          /\ r_result' = Raised("UnicodeEncodeError")
          /\ r_pc' = "idle"
       \/ /\ Encodable(r_script[1])
          /\ r_result' = Raised("OSError")
          /\ r_pc' = "idle"
    /\ UNCHANGED <<r_script, r_name, r_files, r_created, r_proc>>
    /\ UNCHANGED mainVars

\* lines 53-65: run the script, return its output, remove the file in finally
RunnerRun ==
    /\ r_pc = "run"
    /\ \/ \E proc \in CompletedProcesses :
            /\ r_proc' = Some(proc)
            /\ r_result' = Ok(RunnerReturn(proc))
       \/ /\ r_proc' = None
          /\ r_result' = Raised("FileNotFoundError")
    /\ r_files' = r_files \ {r_name[1]}
    /\ r_pc' = "idle"
    /\ UNCHANGED <<r_script, r_name, r_created>>
    /\ UNCHANGED mainVars

NextRunner ==
    \/ RunnerCreate
    \/ RunnerWrite
    \/ RunnerRun

SpecRunner == Init /\ [][NextRunner]_vars

-----------------------------------------------------------------------------
(* Properties of the main flow, checked under Spec *)

\* the completion calls the Expert Caller answered with a reply
Replied(i) == calls[i].op = "completion" /\ calls[i].ret[1] = "ok" /\ calls[i].ret[2] # None

\* the completion calls after which the Expert Caller returned nothing
ReturnedNothing(i) ==
    /\ calls[i].op = "completion"
    /\ \/ calls[i].ret = Ok(None)
       \/ calls[i].ret[1] = "raise" /\ calls[i].ret[2] \in OpenAIErrors

\* the tool calls pending in the cycle of completion call i: those of the
\* status retrieval just before it
PendingAt(i) == calls[i - 1].ret[2].tool_calls

\* the requires_action cycle of completion call i is over
CycleOver(i) == i < Len(calls) \/ pc \notin {"respond"}

\* C1: check_run returns at the first poll that observes completed, expired,
\* failed or requires_action, retrieves nothing after it, and the run it
\* returns carries that status; every earlier status it saw was another one.
C1_PollerTermination ==
    /\ pc = "check_run" => \A i \in DOMAIN polled : polled[i] \notin ReturningStatuses
    /\ pc = "driver" =>
        /\ polled # <<>>
        /\ Last(polled) \in ReturningStatuses
        /\ \A i \in 1..(Len(polled) - 1) : polled[i] \notin ReturningStatuses
        /\ run.status = Last(polled)
        /\ calls[Len(calls)].op = "retrieve"
        /\ calls[Len(calls)].ret = Ok([status |-> run.status, tool_calls |-> run.tool_calls])

C1_Witness ==
    /\ pc = "driver"
    /\ Len(polled) >= 2
    /\ polled[1] = "cancelling"
    /\ run.status = "requires_action"

\* C2 (as claimed): with exactly one pending contact_expert call and a
\* successful reply R, the next remote call is the one submit_tool_outputs
\* call, with the single output R + "\n\n" + continuation_prompt for that call.
C2_DispatchAnyReply ==
    \A i \in DOMAIN calls :
        (Replied(i) /\ Len(PendingAt(i)) = 1 /\ CycleOver(i)) =>
            /\ i < Len(calls)
            /\ calls[i + 1].op = "submit_tool_outputs"
            /\ calls[i + 1].arg =
                 << [tool_call_id |-> PendingAt(i)[1].id,
                     output |-> calls[i].ret[2][1] \o "\n\n" \o continuation_prompt] >>
            /\ i + 2 <= Len(calls) => calls[i + 2].op # "submit_tool_outputs"

\* C2 (amended): the same for a successful non-empty reply R.
C2_DispatchNonEmptyReply ==
    \A i \in DOMAIN calls :
        (Replied(i) /\ calls[i].ret[2][1] # "" /\ Len(PendingAt(i)) = 1 /\ CycleOver(i)) =>
            /\ i < Len(calls)
            /\ calls[i + 1].op = "submit_tool_outputs"
            /\ calls[i + 1].arg =
                 << [tool_call_id |-> PendingAt(i)[1].id,
                     output |-> calls[i].ret[2][1] \o "\n\n" \o continuation_prompt] >>
            /\ i + 2 <= Len(calls) => calls[i + 2].op # "submit_tool_outputs"

C2_Witness ==
    \E i \in DOMAIN calls :
        /\ Replied(i) /\ calls[i].ret[2] = Some("R")
        /\ Len(PendingAt(i)) = 1
        /\ PendingAt(i)[1].name = "contact_expert"
        /\ i < Len(calls)
        /\ calls[i + 1].op = "submit_tool_outputs"
        /\ calls[i + 1].ret[1] = "ok"

\* C3: in a requires_action cycle where the Expert Caller returns nothing,
\* the driver submits nothing: it goes back to polling, and its next remote
\* call is a status retrieval.
C3_NoAnswerNoOp ==
    \A i \in DOMAIN calls :
        ReturnedNothing(i) =>
            /\ i = Len(calls) => pc \in {"respond", "check_run"}
            /\ i < Len(calls) => calls[i + 1].op = "retrieve"

C3_Witness ==
    \E i \in DOMAIN calls :
        /\ ReturnedNothing(i)
        /\ i < Len(calls)
        /\ calls[i + 1].op = "retrieve"

\* the statuses the successful status retrievals returned, as positions in calls
Retrieved(i) == calls[i].op = "retrieve" /\ calls[i].ret[1] = "ok"

\* C4 (as claimed): once the poller has returned a failed or expired run, the
\* driver loop exits: no later status retrieval is issued.
C4_FailedExpiredTerminal ==
    \A i \in DOMAIN calls :
        (Retrieved(i) /\ calls[i].ret[2].status \in {"failed", "expired"}) =>
            \A j \in DOMAIN calls : j > i => calls[j].op # "retrieve"

\* a remote call raised and the exception left the function that issued it
Escaped(i) ==
    /\ calls[i].ret[1] = "raise"
    /\ ~(calls[i].op = "completion" /\ calls[i].ret[2] \in OpenAIErrors)

\* C5: an exception raised while creating the run or inside the Run Driver
\* reaches main's except clause: its message is the last thing printed and
\* the process has exited with code 1; a run that is still going, or that
\* exited with code 0, has seen no such exception.
C5_TopLevelFailure ==
    /\ \A i \in DOMAIN calls :
          Escaped(i) => i = Len(calls) /\ exc = Some(calls[i].ret[2])
    /\ exc # None =>
          /\ pc = "done"
          /\ exit_code = Some(1)
          /\ printed # <<>> /\ Last(printed) = <<"error", exc[1]>>
    /\ exit_code # Some(1) => exc = None

C5_Witness ==
    /\ exc = Some("JSONDecodeError")
    /\ exit_code = Some(1)
    /\ pc = "done"

C7_QuitSentinel ==
    user_input = Some("quit") =>
        /\ pc = "done"
        /\ exit_code = Some(0)
        /\ exc = None
        /\ calls = <<>>

C7_Witness ==
    /\ user_input = Some("quit")
    /\ pc = "done"
    /\ exit_code = Some(0)

\* every status retrieved so far is a waiting one, or completed
OnlyWaitingThenCompleted ==
    \A i \in DOMAIN calls :
        Retrieved(i) => calls[i].ret[2].status \in WaitingStatuses \cup {"completed"}

\* the message ids printed, in order
PrintedIds == SelectSeq(printed, LAMBDA line : line[1] = "Assistant:")

\* C8: on a run that is seen waiting and then completed, and with no
\* exception raised, once the poller has returned completed and the messages
\* were handled the driver is done with exit code 0: it listed the messages
\* once, printed every message of that listing, submitted nothing and never
\* called the Expert Caller.
C8_HappyPath ==
    (/\ OnlyWaitingThenCompleted
     /\ exc = None
     /\ \E i \in DOMAIN calls : Retrieved(i) /\ calls[i].ret[2].status = "completed"
     /\ pc # "driver") =>
        /\ pc = "done"
        /\ exit_code = Some(0)
        /\ Cardinality(CallsOf("list_messages")) = 1
        /\ calls[Len(calls)].op = "list_messages"
        /\ PrintedIds = [k \in DOMAIN calls[Len(calls)].ret[2] |->
                            <<"Assistant:", calls[Len(calls)].ret[2][k].id>>]
        /\ CallsOf("submit_tool_outputs") = {}
        /\ CallsOf("completion") = {}

C8_Witness ==
    /\ pc = "done"
    /\ exit_code = Some(0)
    /\ Len(calls) = 4
    /\ calls[2].op = "retrieve" /\ calls[2].ret[2].status = "queued"
    /\ calls[3].op = "retrieve" /\ calls[3].ret[2].status = "completed"
    /\ Len(PrintedIds) = 2

\* a status retrieval that returned a requires_action run
ActionAt(i) == Retrieved(i) /\ calls[i].ret[2].status = "requires_action"

\* C11: in a requires_action cycle the driver handles the first pending tool
\* call only: an Expert Caller request comes right after the retrieval and is
\* built from the first call's arguments, at most one request and at most one
\* submission follow a retrieval, and a submission carries one output, whose
\* tool_call_id is the id of the first call pending in the run just polled.
C11_SingleToolCall ==
    /\ \A j \in CallsOf("completion") :
          /\ j > 1 /\ ActionAt(j - 1)
          /\ PendingAt(j)[1].name = "contact_expert"
          /\ json_loads(PendingAt(j)[1].arguments).ok
          /\ calls[j].arg[1].name = json_loads(PendingAt(j)[1].arguments).value["name"]
          /\ j < Len(calls) => calls[j + 1].op \in {"submit_tool_outputs", "retrieve"}
    /\ \A j \in CallsOf("submit_tool_outputs") :
          /\ j > 2 /\ calls[j - 1].op = "completion" /\ ActionAt(j - 2)
          /\ Len(calls[j].arg) <= 1
          /\ \A k \in DOMAIN calls[j].arg :
                /\ calls[j].arg[k].tool_call_id = PendingAt(j - 1)[1].id
                /\ \E t \in DOMAIN PendingAt(j - 1) :
                      PendingAt(j - 1)[t].id = calls[j].arg[k].tool_call_id
          /\ j < Len(calls) => calls[j + 1].op = "retrieve"

C11_Witness ==
    \E j \in CallsOf("submit_tool_outputs") :
        /\ j > 2 /\ ActionAt(j - 2)
        /\ Len(PendingAt(j - 1)) >= 2
        /\ Len(calls[j].arg) = 1
        /\ calls[j].arg[1].tool_call_id = PendingAt(j - 1)[1].id
        /\ calls[j].ret[1] = "ok"

\* the last status retrieval issued so far
LastRetrieve == CHOOSE i \in CallsOf("retrieve") : \A j \in CallsOf("retrieve") : j <= i

\* C12: run_assistant returns normally only in a cycle whose polled status
\* is completed; after a failed or expired status the driver lists and prints
\* the messages and then polls the same run again.
C12_OnlyCompletedEnds ==
    /\ (exit_code = Some(0) /\ user_input # Some("quit")) =>
          /\ run.status = "completed"
          /\ Retrieved(LastRetrieve)
          /\ calls[LastRetrieve].ret[2].status = "completed"
          /\ LastRetrieve + 1 = Len(calls)
    /\ \A i \in DOMAIN calls :
          (Retrieved(i) /\ calls[i].ret[2].status \in {"failed", "expired"}) =>
             /\ i < Len(calls) =>
                   /\ calls[i + 1].op = "list_messages"
                   /\ calls[i + 1].thread_id = calls[i].thread_id
             /\ (i + 1 = Len(calls) /\ exc = None) =>
                   /\ pc = "check_run"
                   /\ exit_code = None
                   /\ \A k \in DOMAIN calls[i + 1].ret[2] :
                         \E n \in DOMAIN printed :
                             printed[n] = <<"Assistant:", calls[i + 1].ret[2][k].id>>
             /\ i + 1 < Len(calls) =>
                   /\ calls[i + 2].op = "retrieve"
                   /\ calls[i + 2].thread_id = calls[i].thread_id
                   /\ calls[i + 2].run_id = calls[i].run_id

C12_Witness ==
    \E i \in DOMAIN calls :
        /\ Retrieved(i) /\ calls[i].ret[2].status = "failed"
        /\ i + 2 = Len(calls)
        /\ calls[i + 1].op = "list_messages"
        /\ calls[i + 2].op = "retrieve"
        /\ Len(SelectSeq(printed, LAMBDA line : line[1] = "Assistant:")) = 2

\* the run was created, every status retrieved since is requires_action, the
\* Expert Caller returned nothing each time it was called, and no exception
\* reached main
StalledRun ==
    /\ CallsOf("create_and_run") # {} /\ calls[1].ret[1] = "ok"
    /\ \A i \in CallsOf("retrieve") : ActionAt(i)
    /\ \A i \in CallsOf("completion") : ReturnedNothing(i)
    /\ exc = None

\* C13: while the run stays in requires_action and the Expert Caller returns
\* nothing, the driver never submits, never lists messages and never ends: it
\* is always inside the cycle of polling and calling the expert, and every
\* expert call that returned nothing is followed by a new status retrieval.
C13_UnresolvedActionStall ==
    StalledRun =>
        /\ CallsOf("submit_tool_outputs") = {}
        /\ CallsOf("list_messages") = {}
        /\ pc \in {"check_run", "driver", "contact_expert", "respond"}
        /\ exit_code = None
        /\ last_id = None
        /\ \A i \in CallsOf("completion") :
              /\ calls[i - 1].op = "retrieve"
              /\ i < Len(calls) => calls[i + 1].op = "retrieve"
              /\ i = Len(calls) => pc \in {"respond", "check_run"}

C13_Witness ==
    /\ StalledRun
    /\ Len(calls) = 5
    /\ calls[2].op = "retrieve" /\ calls[3].op = "completion"
    /\ calls[4].op = "retrieve" /\ calls[5].op = "completion"
    /\ pc = "check_run"

\* the message listings that returned, as positions in calls
Listed(i) == calls[i].op = "list_messages" /\ calls[i].ret[1] = "ok"

\* C14: no message is printed twice; the first listing asks for all the
\* messages, and every later listing asks for the messages after the id of
\* the last message the listing before it returned.
C14_NoReprinting ==
    /\ \A m, n \in DOMAIN PrintedIds : m # n => PrintedIds[m] # PrintedIds[n]
    /\ \A j \in CallsOf("list_messages") :
          IF \E i \in CallsOf("list_messages") : i < j
             THEN LET prev == CHOOSE i \in CallsOf("list_messages") :
                                 /\ i < j
                                 /\ \A k \in CallsOf("list_messages") : k < j => k <= i
                  IN  /\ Listed(prev)
                      /\ calls[prev].ret[2] # <<>>
                      /\ calls[j].arg = Some(Last(calls[prev].ret[2]).id)
                      /\ last_id # None
             ELSE calls[j].arg = None
    /\ \A j \in CallsOf("list_messages") :
          (j = Len(calls) /\ Listed(j) /\ calls[j].ret[2] # <<>>) =>
              last_id = Some(Last(calls[j].ret[2]).id)

C14_Witness ==
    \E i, j \in CallsOf("list_messages") :
        /\ i < j
        /\ Listed(j) /\ calls[j].ret[2] # <<>>
        /\ calls[j].arg = Some(Last(calls[i].ret[2]).id)
        /\ Len(PrintedIds) = 2
        /\ PrintedIds[1] # PrintedIds[2]

\* the requires_action cycle that began with retrieval i is over
ActionCycleOver(i) ==
    \/ \E j \in CallsOf("retrieve") : j > i
    \/ pc \in {"check_run", "done"}

\* the Expert Caller was called in the cycle of retrieval i
ExpertCalledIn(i) == i < Len(calls) /\ calls[i + 1].op = "completion"

\* a tool output was submitted in the cycle of retrieval i
SubmittedIn(i) ==
    /\ i + 1 < Len(calls)
    /\ calls[i + 1].op = "completion"
    /\ calls[i + 2].op = "submit_tool_outputs"

\* C15: in a finished requires_action cycle a tool output was submitted if
\* and only if the first pending call is contact_expert and the Expert Caller
\* returned a non-empty reply; another function name leads to no expert call
\* and no submission, and an empty reply, like no reply, to no submission.
C15_SubmissionCondition ==
    \A i \in DOMAIN calls :
        (ActionAt(i) /\ ActionCycleOver(i)) =>
            LET first == calls[i].ret[2].tool_calls[1]
            IN  /\ SubmittedIn(i) <=>
                      /\ first.name = "contact_expert"
                      /\ ExpertCalledIn(i)
                      /\ Replied(i + 1)
                      /\ calls[i + 1].ret[2][1] # ""
                /\ first.name # "contact_expert" =>
                      /\ ~ExpertCalledIn(i)
                      /\ i < Len(calls) => calls[i + 1].op = "retrieve"
                /\ (ExpertCalledIn(i) /\ calls[i + 1].ret = Ok(Some(""))) =>
                      (i + 1 < Len(calls) => calls[i + 2].op = "retrieve")

C15_Witness ==
    \E i, j \in DOMAIN calls :
        /\ ActionAt(i) /\ ActionAt(j) /\ i < j
        /\ calls[i].ret[2].tool_calls[1].name = "contact_expert"
        /\ ExpertCalledIn(i) /\ calls[i + 1].ret = Ok(Some(""))
        /\ ~SubmittedIn(i)
        /\ SubmittedIn(j)

\* C16 (as claimed): a message listing that returns no message is tolerated:
\* nothing is raised, the process does not exit with code 1, the last seen
\* message id stays what it was and the driver goes on polling.
C16_EmptyFetchTolerated ==
    \A j \in DOMAIN calls :
        (Listed(j) /\ calls[j].ret[2] = <<>>) =>
            /\ exc = None
            /\ exit_code # Some(1)
            /\ j = Len(calls) => (pc = "check_run" /\ last_id = calls[j].arg)

\* the run calls that returned a run, as positions in calls
ReturnedRun(i) ==
    /\ calls[i].op \in {"create_and_run", "retrieve", "submit_tool_outputs"}
    /\ calls[i].ret[1] = "ok"

\* the status of the run a call returned
StatusReturned(i) ==
    IF calls[i].op = "retrieve" THEN calls[i].ret[2].status ELSE "queued"

\* C17: every status retrieval and submission carries the thread id and the
\* run id that create_and_run returned and every listing its thread id; the
\* local run keeps that handle, and its status is always the one the remote
\* service returned last.
C17_StableRunHandle ==
    /\ \A i \in DOMAIN calls :
          /\ calls[i].op \in {"retrieve", "submit_tool_outputs"} =>
                /\ calls[1].op = "create_and_run" /\ calls[1].ret[1] = "ok"
                /\ calls[i].thread_id = calls[1].ret[2].thread_id
                /\ calls[i].run_id = calls[1].ret[2].id
          /\ calls[i].op = "list_messages" =>
                /\ calls[1].op = "create_and_run" /\ calls[1].ret[1] = "ok"
                /\ calls[i].thread_id = calls[1].ret[2].thread_id
          /\ i > 1 => calls[i].op # "create_and_run"
    /\ IF \E i \in DOMAIN calls : ReturnedRun(i)
          THEN LET last == CHOOSE i \in DOMAIN calls :
                              /\ ReturnedRun(i)
                              /\ \A k \in DOMAIN calls : ReturnedRun(k) => k <= i
               IN  /\ run.thread_id = calls[1].ret[2].thread_id
                   /\ run.id = calls[1].ret[2].id
                   /\ run.status = StatusReturned(last)
          ELSE run = NoRun

C17_Witness ==
    /\ Len(calls) = 6
    /\ calls[1].ret = Ok([thread_id |-> "thread_2", id |-> "run_2"])
    /\ calls[2].op = "retrieve" /\ calls[2].run_id = "run_2"
    /\ calls[4].op = "submit_tool_outputs" /\ calls[4].thread_id = "thread_2"
    /\ calls[5].op = "retrieve" /\ calls[5].ret[1] = "ok"
    /\ calls[6].op = "list_messages" /\ calls[6].thread_id = "thread_2"

-----------------------------------------------------------------------------
(* Properties of the Script Runner, checked under SpecRunner *)

\* execute_python_code_local has returned or raised
RunnerExited == r_pc = "idle" /\ r_name # None

\* C9 (as claimed): on every exit path, a failed write included, the
\* temporary file no longer exists when the function returns or raises.
C9_TempFileRemoved ==
    RunnerExited => r_name[1] \notin r_files

\* C10: the function returns the captured standard output when the
\* subprocess exits with code zero and the captured standard error when it
\* exits non-zero; a non-zero exit is returned, never raised.
C10_RunnerResult ==
    (RunnerExited /\ r_proc # None) =>
        /\ r_result[1] = "ok"
        /\ r_proc[1].returncode = 0 => r_result[2] = r_proc[1].stdout
        /\ r_proc[1].returncode # 0 => r_result[2] = r_proc[1].stderr

C10_Witness ==
    /\ RunnerExited
    /\ r_proc # None
    /\ r_proc[1].returncode = 2
    /\ r_proc[1].stdout = "ok\n"
    /\ r_result = Ok("ValueError: x\n")

====
